---- MODULE Spec2Model ----
(***************************************************************************)
(* Model of cras_alsa_mixer.c: the mixer handle (create / destroy), the    *)
(* discovery of the main volume controls and of the playback switch, the   *)
(* distribution of a requested attenuation over the chained volume         *)
(* controls, and the mute toggle.                                          *)
(*                                                                         *)
(* The ALSA simple-mixer backend is the environment.  A card is a sequence *)
(* of elements in enumeration order; an element has a name, the two        *)
(* capabilities, and a dB scale  lo, lo+step, ..., lo+n*step.  dB values   *)
(* are small integers (one unit stands for a fixed number of 0.01 dB).     *)
(* The dB calls are taken to succeed on every element with playback        *)
(* volume, and all values stay far from the limits of long.  One dB value  *)
(* and one switch value per element stand for all its channels, which the  *)
(* _all calls set alike.                                                   *)
(***************************************************************************)
EXTENDS Integers, Sequences, FiniteSets

(* ------------------------------ bounds --------------------------------- *)

\* largest number of elements a card enumerates
MaxElems == 2

\* requests range over -ReqBelow .. ReqAbove
ReqBelow == 7

ReqAbove == 1

\* largest number of volume controls in a chain of SpecChain
MaxChain == 3

\* in SpecChain the requests on the Master/PCM card of the spec's scenarios
\* range over -ScenarioBelow .. ReqAbove
ScenarioBelow == 95

(* --------------------------- program constants ------------------------- *)

NULL == 0

\* (variant for C1: the write rounds down)
DIR_DOWN == -1

\* the dir argument of snd_mixer_selem_set_playback_dB_all: round up
DIR_UP == 1

SND_MIXER_SCHN_FRONT_LEFT == 0

main_volume_control_names == <<"Master", "Digital", "PCM">>

(* ------------------------------ the card ------------------------------- *)

\* names an element of the card may carry: the three main control names and
\* one that is not in the table
ElemNames == {"Master", "Digital", "PCM", "Headphone"}

\* dB scale of an element: lo is the lowest step, n+1 the number of steps.
\* Elements of one name share a scale.
ScaleOf(nm) ==
  CASE nm = "Master"  -> [lo |-> -4, step |-> 1, n |-> 4]    \* -4 .. 0
    [] nm = "Digital" -> [lo |-> -5, step |-> 3, n |-> 1]    \* -5, -2
    [] nm = "PCM"     -> [lo |-> -3, step |-> 2, n |-> 2]    \* -3, -1, 1
    [] OTHER          -> [lo |-> -2, step |-> 1, n |-> 2]    \* -2 .. 0

Elements ==
  { [name |-> nm, hasVol |-> v, hasSw |-> s, scale |-> ScaleOf(nm)] :
      nm \in ElemNames, v \in BOOLEAN, s \in BOOLEAN }

Cards == UNION { [1..k -> Elements] : k \in 0..MaxElems }

Hi(sc) == sc.lo + sc.n * sc.step

Steps(sc) == { sc.lo + k * sc.step : k \in 0..sc.n }

Requests == (0 - ReqBelow) .. ReqAbove

\* cards that are chains of volume controls: every element has a name of the
\* table and playback volume
ChainElements ==
  { [name |-> main_volume_control_names[i], hasVol |-> TRUE, hasSw |-> FALSE,
     scale |-> ScaleOf(main_volume_control_names[i])] :
      i \in 1..Len(main_volume_control_names) }

ChainCards == UNION { [1..k -> ChainElements] : k \in 1..MaxChain }

\* the card of the spec's scenarios, one unit standing for 1 dB:
\* "Master" -60..0 dB then "PCM" -30..0 dB, both in steps of 1 dB
ScenarioCard ==
  << [name |-> "Master", hasVol |-> TRUE, hasSw |-> TRUE,
      scale |-> [lo |-> -60, step |-> 1, n |-> 60]],
     [name |-> "PCM", hasVol |-> TRUE, hasSw |-> FALSE,
      scale |-> [lo |-> -30, step |-> 1, n |-> 30]] >>

ScenarioRequests == (0 - ScenarioBelow) .. ReqAbove

\* values of the int argument of set_mute
MuteArgs == {0, 1, 2}

VARIABLES
  card,        \* the backend's elements, in enumeration order
  reqs,        \* the values of volume_dB the caller may request
  dB,          \* dB[i]: attenuation element i applies (all channels alike)
  switch,      \* switch[i]: playback switch of element i, 1 = on
  pc,          \* "start", "live", "failed", "destroyed"
  cmix,        \* the struct cras_alsa_mixer the caller holds
  heap,        \* live allocations: handle records, connections, control records
  hist         \* record of the calls made (read by the properties only)

vars == <<card, reqs, dB, switch, pc, cmix, heap, hist>>

(* ------------------------------ the backend ---------------------------- *)

\* snd_mixer_selem_set_playback_dB_all(elem, value, dir): the step the element
\* takes on every channel.  The request is clamped to the scale; inside the
\* scale it is rounded up for dir > 0, down for dir < 0.
snd_mixer_selem_set_playback_dB_all(sc, value, dir) ==
  IF value <= sc.lo THEN sc.lo
  ELSE IF value >= Hi(sc) THEN Hi(sc)
  ELSE IF dir > 0
       THEN sc.lo + sc.step * (((value - sc.lo) + (sc.step - 1)) \div sc.step)
       ELSE sc.lo + sc.step * ((value - sc.lo) \div sc.step)

\* snd_mixer_selem_get_playback_dB(elem, channel, &value)
snd_mixer_selem_get_playback_dB(d, elem, channel) == d[elem]

\* snd_mixer_selem_set_playback_switch_all(elem, value)
snd_mixer_selem_set_playback_switch_all(s, elem, value) ==
  [s EXCEPT ![elem] = value]

(* ------------------------------ the handle ----------------------------- *)

NoHandle ==
  [mixer |-> NULL, main_volume_controls |-> <<>>, playback_switch |-> NULL]

NoHeap == [handles |-> 0, conns |-> 0, ctls |-> 0]

\* the backend calls of alsa_mixer_open, in order; "none": none of them fails
OpenSteps == {"none", "open", "attach", "register", "load"}

\* alsa_mixer_open: failAt names the backend call that fails.  mixer is the
\* returned pointer (1 stands for a valid one), conns the number of
\* connections the call leaves open.
alsa_mixer_open(failAt) ==
  IF failAt = "open" THEN [mixer |-> NULL, conns |-> 0]
  ELSE IF failAt \in {"attach", "register", "load"}
       THEN [mixer |-> NULL, conns |-> 0]      \* fail_after_open: closed again
       ELSE [mixer |-> 1, conns |-> 1]

\* (variant for C4: the loop over the name table stops one entry early)
is_main_volume_control_short(elem) ==
  \E i \in 1..(Len(main_volume_control_names) - 1) :
     main_volume_control_names[i] = elem.name

is_main_volume_control(elem) ==
  \E i \in 1..Len(main_volume_control_names) :
     main_volume_control_names[i] = elem.name

\* (variant for C17: the switch is looked for before the name is tested, so
\* an element of any name may become the mute switch)
RECURSIVE find_controls_anyswitch(_, _, _, _, _)
find_controls_anyswitch(c, elem, vcs, psw, failAt) ==
  IF elem > Len(c)
  THEN [nomem |-> FALSE, main_volume_controls |-> vcs, playback_switch |-> psw]
  ELSE
    LET psw1 == IF psw = NULL /\ c[elem].hasSw THEN elem ELSE psw
    IN  IF ~is_main_volume_control(c[elem])
        THEN find_controls_anyswitch(c, elem + 1, vcs, psw1, failAt)
        ELSE IF c[elem].hasVol /\ Len(vcs) + 1 = failAt
        THEN [nomem |-> TRUE, main_volume_controls |-> vcs,
              playback_switch |-> psw1]
        ELSE find_controls_anyswitch(c, elem + 1,
                     IF c[elem].hasVol THEN Append(vcs, elem) ELSE vcs,
                     psw1, failAt)

\* (variant for C3: the test playback_switch == NULL is missing, so a later
\* switch replaces an earlier one)
RECURSIVE find_controls_last(_, _, _, _, _)
find_controls_last(c, elem, vcs, psw, failAt) ==
  IF elem > Len(c)
  THEN [nomem |-> FALSE, main_volume_controls |-> vcs, playback_switch |-> psw]
  ELSE IF ~is_main_volume_control(c[elem])
  THEN find_controls_last(c, elem + 1, vcs, psw, failAt)
  ELSE IF c[elem].hasVol /\ Len(vcs) + 1 = failAt
  THEN [nomem |-> TRUE, main_volume_controls |-> vcs, playback_switch |-> psw]
  ELSE find_controls_last(c, elem + 1,
                     IF c[elem].hasVol THEN Append(vcs, elem) ELSE vcs,
                     IF c[elem].hasSw THEN elem ELSE psw,
                     failAt)

\* The loop of cras_alsa_mixer_create over the elements, from element elem on.
\* vcs is the list built so far, psw the switch captured so far; the failAt-th
\* calloc of a control record fails (0: none does).
RECURSIVE find_controls(_, _, _, _, _)
find_controls(c, elem, vcs, psw, failAt) ==
  IF elem > Len(c)
  THEN [nomem |-> FALSE, main_volume_controls |-> vcs, playback_switch |-> psw]
  ELSE IF ~is_main_volume_control(c[elem])
  THEN find_controls(c, elem + 1, vcs, psw, failAt)
  ELSE IF c[elem].hasVol /\ Len(vcs) + 1 = failAt
  THEN [nomem |-> TRUE, main_volume_controls |-> vcs, playback_switch |-> psw]
  ELSE find_controls(c, elem + 1,
                     IF c[elem].hasVol THEN Append(vcs, elem) ELSE vcs,
                     IF psw = NULL /\ c[elem].hasSw THEN elem ELSE psw,
                     failAt)

\* (variant for C6: the list of control records is not walked)
destroy_frees_nolist(h, cm) ==
  [handles |-> h.handles - 1,
   conns   |-> h.conns - 1,
   ctls    |-> h.ctls]

\* (variant for C12: every control record is freed twice, as when the walk
\* frees a record and the record after it is reached through the freed one)
destroy_frees_twice(h, cm) ==
  [handles |-> h.handles - 1,
   conns   |-> h.conns - 1,
   ctls    |-> h.ctls - 2 * Len(cm.main_volume_controls)]

\* cras_alsa_mixer_destroy on the heap: every control record of the list, the
\* connection and the handle record are released
destroy_frees(h, cm) ==
  [handles |-> h.handles - 1,
   conns   |-> h.conns - 1,
   ctls    |-> h.ctls - Len(cm.main_volume_controls)]

\* cras_alsa_mixer_create as a function of the card and of the failures the
\* run meets: nomem (the calloc of the handle fails), failAt (alsa_mixer_open)
\* and ctlFail (the calloc of a control record).  ret is the returned pointer
\* (NULL, or 1 for the handle), heap what is allocated on return.
create(c, nomem, failAt, ctlFail) ==
  IF nomem
  THEN [ret |-> NULL, cmix |-> NoHandle, heap |-> NoHeap, why |-> "calloc",
        built |-> 0]
  ELSE
    LET o == alsa_mixer_open(failAt)
    IN  IF o.mixer = NULL
        THEN [ret |-> NULL, cmix |-> NoHandle,
              heap |-> [handles |-> 1, conns |-> o.conns, ctls |-> 0],
              why |-> failAt, built |-> 0]
        ELSE
          LET f  == find_controls(c, 1, <<>>, NULL, ctlFail)
              cm == [mixer |-> o.mixer,
                     main_volume_controls |-> f.main_volume_controls,
                     playback_switch |-> f.playback_switch]
              h  == [handles |-> 1, conns |-> o.conns,
                     ctls |-> Len(f.main_volume_controls)]
          IN  IF f.nomem
              THEN [ret |-> NULL, cmix |-> NoHandle,
                    heap |-> destroy_frees(h, cm), why |-> "ctl",
                    built |-> h.ctls]
              ELSE [ret |-> 1, cmix |-> cm, heap |-> h, why |-> "ok",
                    built |-> h.ctls]

\* (variant for C2: to_set is not reduced by what a control took)
RECURSIVE set_volume_loop_nosub(_, _, _, _, _)
set_volume_loop_nosub(c, vcs, k, to_set, d) ==
  IF k > Len(vcs)
  THEN [dB |-> d, log |-> <<>>]
  ELSE
    LET elem == vcs[k]
        d1 == [d EXCEPT ![elem] =
                 snd_mixer_selem_set_playback_dB_all(c[elem].scale, to_set, DIR_UP)]
        actual_dB ==
          snd_mixer_selem_get_playback_dB(d1, elem, SND_MIXER_SCHN_FRONT_LEFT)
        rest == set_volume_loop_nosub(c, vcs, k + 1, to_set, d1)
    IN  [dB  |-> rest.dB,
         log |-> <<[elem |-> elem, to_set |-> to_set, actual_dB |-> actual_dB,
                    left |-> to_set]>> \o rest.log]

\* (variant for C13: the loop is left once to_set has reached 0)
RECURSIVE set_volume_loop_stop(_, _, _, _, _)
set_volume_loop_stop(c, vcs, k, to_set, d) ==
  IF k > Len(vcs) \/ (k > 1 /\ to_set >= 0)
  THEN [dB |-> d, log |-> <<>>]
  ELSE
    LET elem == vcs[k]
        d1 == [d EXCEPT ![elem] =
                 snd_mixer_selem_set_playback_dB_all(c[elem].scale, to_set, DIR_UP)]
        actual_dB ==
          snd_mixer_selem_get_playback_dB(d1, elem, SND_MIXER_SCHN_FRONT_LEFT)
        rest == set_volume_loop_stop(c, vcs, k + 1, to_set - actual_dB, d1)
    IN  [dB  |-> rest.dB,
         log |-> <<[elem |-> elem, to_set |-> to_set, actual_dB |-> actual_dB,
                    left |-> to_set - actual_dB]>> \o rest.log]

\* (variant for C10: the read-back precedes the write, so what is subtracted is
\* the attenuation the control had before the call)
RECURSIVE set_volume_loop_readfirst(_, _, _, _, _)
set_volume_loop_readfirst(c, vcs, k, to_set, d) ==
  IF k > Len(vcs)
  THEN [dB |-> d, log |-> <<>>]
  ELSE
    LET elem == vcs[k]
        actual_dB ==
          snd_mixer_selem_get_playback_dB(d, elem, SND_MIXER_SCHN_FRONT_LEFT)
        d1 == [d EXCEPT ![elem] =
                 snd_mixer_selem_set_playback_dB_all(c[elem].scale, to_set, DIR_UP)]
        rest == set_volume_loop_readfirst(c, vcs, k + 1, to_set - actual_dB, d1)
    IN  [dB  |-> rest.dB,
         log |-> <<[elem |-> elem, to_set |-> to_set, actual_dB |-> actual_dB,
                    left |-> to_set - actual_dB]>> \o rest.log]

\* The loop of cras_alsa_mixer_set_volume from the k-th control of the list on:
\* write to_set to the control, read back what it took, subtract.  log keeps,
\* per control, the element, to_set before the write, the value read back and
\* to_set after the subtraction.
RECURSIVE set_volume_loop(_, _, _, _, _)
set_volume_loop(c, vcs, k, to_set, d) ==
  IF k > Len(vcs)
  THEN [dB |-> d, log |-> <<>>]
  ELSE
    LET elem == vcs[k]
        d1 == [d EXCEPT ![elem] =
                 snd_mixer_selem_set_playback_dB_all(c[elem].scale, to_set, DIR_UP)]
        actual_dB ==
          snd_mixer_selem_get_playback_dB(d1, elem, SND_MIXER_SCHN_FRONT_LEFT)
        rest == set_volume_loop(c, vcs, k + 1, to_set - actual_dB, d1)
    IN  [dB  |-> rest.dB,
         log |-> <<[elem |-> elem, to_set |-> to_set, actual_dB |-> actual_dB,
                    left |-> to_set - actual_dB]>> \o rest.log]

\* (variant for C7: 1 - x in place of !x)
Not_minus(x) == 1 - x

\* C's !x on an int
Not(x) == IF x = 0 THEN 1 ELSE 0

\* (variant for C9: the switch is written with muted, not with !muted)
set_mute_plain(cm, s, muted) ==
  IF cm.playback_switch = NULL
  THEN s
  ELSE snd_mixer_selem_set_playback_switch_all(s, cm.playback_switch, muted)

\* (variant for C8: without a captured switch the first element of the card
\* is written)
set_mute_first(cm, s, muted) ==
  IF Len(s) = 0
  THEN s
  ELSE snd_mixer_selem_set_playback_switch_all(
         s, IF cm.playback_switch = NULL THEN 1 ELSE cm.playback_switch,
         Not(muted))

\* cras_alsa_mixer_set_mute on the switches of the card
set_mute(cm, s, muted) ==
  IF cm.playback_switch = NULL
  THEN s
  ELSE snd_mixer_selem_set_playback_switch_all(s, cm.playback_switch, Not(muted))

(* --------------------------- the state machine ------------------------- *)

NoCall == [op |-> "none", arg |-> 0, sw |-> 0]

NoVol == [R |-> 0, log |-> <<>>, called |-> FALSE]

\* the switch the handle mutes with, as the caller sees it (0 when there is none)
SwitchOf(cm, s) == IF cm.playback_switch = NULL THEN 0 ELSE s[cm.playback_switch]

\* the state before create, on the card chosen
Fresh ==
  /\ \E loud \in BOOLEAN :
       /\ dB = [i \in 1..Len(card) |->
                  IF ~card[i].hasVol THEN 0
                  ELSE IF loud THEN Hi(card[i].scale) ELSE card[i].scale.lo]
       /\ switch = [i \in 1..Len(card) |->
                  IF card[i].hasSw /\ loud THEN 1 ELSE 0]
  /\ pc = "start"
  /\ cmix = NoHandle
  /\ heap = NoHeap
  /\ hist = [create |-> "none", built |-> 0, handle |-> NoHandle,
             vol |-> NoVol, mute |-> "none",
             last |-> NoCall, pair |-> "none", was |-> 0]

Init ==
  /\ card \in Cards
  /\ reqs = Requests
  /\ Fresh

\* chains of up to MaxChain volume controls, and the card of the scenarios
InitChain ==
  /\ \/ card \in ChainCards /\ reqs = Requests
     \/ card = ScenarioCard /\ reqs = ScenarioRequests
  /\ Fresh

cras_alsa_mixer_create ==
  /\ pc = "start"
  /\ \E nomem \in BOOLEAN, failAt \in OpenSteps, ctlFail \in 0..MaxElems :
       LET r == create(card, nomem, failAt, ctlFail)
       IN  /\ pc' = IF r.ret = NULL THEN "failed" ELSE "live"
           /\ cmix' = r.cmix
           /\ heap' = r.heap
           /\ hist' = [hist EXCEPT !.create = r.why, !.built = r.built,
                                   !.handle = r.cmix]
  /\ UNCHANGED <<card, reqs, dB, switch>>

cras_alsa_mixer_destroy ==
  /\ pc = "live"
  /\ heap' = destroy_frees(heap, cmix)
  /\ cmix' = NoHandle
  /\ pc' = "destroyed"
  /\ hist' = [hist EXCEPT !.vol = NoVol, !.mute = "none",
                          !.last = [NoCall EXCEPT !.op = "destroy"],
                          !.pair = "none", !.was = 0]
  /\ UNCHANGED <<card, reqs, dB, switch>>

cras_alsa_mixer_set_volume ==
  /\ pc = "live"
  /\ \E volume_dB \in reqs :
       LET r == set_volume_loop(card, cmix.main_volume_controls, 1, volume_dB, dB)
           again == hist.last.op = "set_volume" /\ hist.last.arg = volume_dB
       IN  /\ dB' = r.dB
           /\ hist' = [hist EXCEPT
                 !.vol  = [R |-> volume_dB, log |-> r.log, called |-> TRUE],
                 !.last = [op |-> "set_volume", arg |-> volume_dB, sw |-> 0],
                 !.pair = IF again THEN "vol_again" ELSE "none",
                 !.was  = IF again THEN dB ELSE 0]
  /\ UNCHANGED <<card, reqs, switch, pc, cmix, heap>>

\* (variant for C16: muting also drives the switch element, when it has
\* playback volume, to its lowest step)
cras_alsa_mixer_set_mute_quiet ==
  /\ pc = "live"
  /\ \E muted \in MuteArgs :
       LET unmute == hist.last.op = "set_mute" /\ hist.last.arg = 1 /\ muted = 0
           psw == cmix.playback_switch
       IN  /\ switch' = set_mute(cmix, switch, muted)
           /\ dB' = IF psw # NULL /\ muted # 0 /\ card[psw].hasVol
                    THEN [dB EXCEPT ![psw] = card[psw].scale.lo]
                    ELSE dB
           /\ hist' = [hist EXCEPT
                 !.mute = IF muted # 0 THEN "muted" ELSE "unmuted",
                 !.last = [op |-> "set_mute", arg |-> IF muted # 0 THEN 1 ELSE 0,
                           sw |-> IF muted # 0 THEN SwitchOf(cmix, switch)
                                                ELSE 0],
                 !.pair = IF unmute THEN "mute_unmute" ELSE "none",
                 !.was  = IF unmute THEN hist.last.sw ELSE 0]
  /\ UNCHANGED <<card, reqs, pc, cmix, heap>>

\* (variant for C11: the test of line 184 written with = for ==, which
\* clears playback_switch and goes on to the backend call with no element)
cras_alsa_mixer_set_mute_assign ==
  /\ pc = "live"
  /\ \E muted \in MuteArgs :
       /\ cmix' = [cmix EXCEPT !.playback_switch = NULL]
       /\ hist' = [hist EXCEPT
             !.mute = IF muted # 0 THEN "muted" ELSE "unmuted",
             !.last = [op |-> "set_mute", arg |-> IF muted # 0 THEN 1 ELSE 0,
                       sw |-> 0],
             !.pair = "none", !.was = 0]
  /\ UNCHANGED <<card, reqs, dB, switch, pc, heap>>

cras_alsa_mixer_set_mute ==
  /\ pc = "live"
  /\ \E muted \in MuteArgs :
       LET unmute == hist.last.op = "set_mute" /\ hist.last.arg = 1 /\ muted = 0
       IN  /\ switch' = set_mute(cmix, switch, muted)
           /\ hist' = [hist EXCEPT
                 !.mute = IF muted # 0 THEN "muted" ELSE "unmuted",
                 !.last = [op |-> "set_mute", arg |-> IF muted # 0 THEN 1 ELSE 0,
                           sw |-> IF muted # 0 THEN SwitchOf(cmix, switch)
                                                ELSE 0],
                 !.pair = IF unmute THEN "mute_unmute" ELSE "none",
                 !.was  = IF unmute THEN hist.last.sw ELSE 0]
  /\ UNCHANGED <<card, reqs, dB, pc, cmix, heap>>

Next ==
  \/ cras_alsa_mixer_create
  \/ cras_alsa_mixer_set_volume
  \/ cras_alsa_mixer_set_mute
  \/ cras_alsa_mixer_destroy

Spec == Init /\ [][Next]_vars

SpecChain == InitChain /\ [][Next]_vars

(* ------------------------------ properties ----------------------------- *)

\* the names of the table, as a set
MainNames == {"Master", "Digital", "PCM"}

\* the volume controls of the handle, as elements of the card
Controls == cmix.main_volume_controls

\* the log of the last set_volume call
Log == hist.vol.log

\* the log has one entry per volume control of the handle, in list order; the
\* first residual is the request and each later one is what the control
\* before it left
LogFollowsControls ==
  /\ Len(Log) = Len(Controls)
  /\ \A i \in 1..Len(Log) :
       /\ Log[i].elem = Controls[i]
       /\ Log[i].to_set = (IF i = 1 THEN hist.vol.R ELSE Log[i - 1].left)

\* a is the step of scale sc closest to r among those >= r
ClosestStepAtLeast(sc, r, a) ==
  /\ a \in Steps(sc)
  /\ a >= r
  /\ \A s \in Steps(sc) : s >= r => a <= s

\* C1 as stated: after set_volume(R) every volume control, in discovery order,
\* holds the closest step of its scale that is >= the residual before it (R
\* for the first), and the residual after it is the residual before it minus
\* that step; for every request and every scale.
C1_EveryControlTakesStepAtLeastResidual ==
  (pc = "live" /\ hist.vol.called) =>
    /\ LogFollowsControls
    /\ \A i \in 1..Len(Log) :
         /\ ClosestStepAtLeast(card[Log[i].elem].scale, Log[i].to_set,
                               dB[Log[i].elem])
         /\ Log[i].left = Log[i].to_set - dB[Log[i].elem]

\* C1 (amended): after set_volume(R) every volume control, in discovery order,
\* holds the closest step of its scale that is >= the residual before it when
\* its scale has such a step, and its highest step when it has none; the
\* residual after it is the residual before it minus the step it holds.
C1_StepAtLeastResidualOrHighest ==
  (pc = "live" /\ hist.vol.called) =>
    /\ LogFollowsControls
    /\ \A i \in 1..Len(Log) :
         LET sc == card[Log[i].elem].scale
             r  == Log[i].to_set
             a  == dB[Log[i].elem]
         IN  /\ (\E s \in Steps(sc) : s >= r) => ClosestStepAtLeast(sc, r, a)
             /\ (\A s \in Steps(sc) : s < r) => a = Hi(sc)
             /\ Log[i].left = r - a

\* two controls: the first is driven to its lowest step and leaves a residual,
\* the second is handed a residual between two of its steps and rounds up
C1_Witness ==
  /\ pc = "live" /\ hist.vol.called /\ Len(Log) = 2
  /\ dB[Log[1].elem] = card[Log[1].elem].scale.lo
  /\ Log[1].left < 0
  /\ Log[2].to_set > card[Log[2].elem].scale.lo
  /\ dB[Log[2].elem] > Log[2].to_set

\* sum of the attenuations the elements of the list vcs apply
RECURSIVE Total(_, _)
Total(d, vcs) == IF vcs = <<>> THEN 0 ELSE d[Head(vcs)] + Total(d, Tail(vcs))

\* C2 as stated: after set_volume(R) the attenuations of the volume controls
\* add up to no less than R, for every request and every card.
C2_TotalNeverBelowRequest ==
  (pc = "live" /\ hist.vol.called) => Total(dB, Controls) >= hist.vol.R

\* C2 (amended): after set_volume(R) with R <= 0 on a handle whose volume
\* controls all have a scale reaching 0 dB or above, the attenuations of the
\* volume controls add up to no less than R.
C2_TotalNeverBelowRequestWhenReachable ==
  ( /\ pc = "live" /\ hist.vol.called
    /\ hist.vol.R <= 0
    /\ \A i \in 1..Len(Controls) : Hi(card[Controls[i]].scale) >= 0 )
  => Total(dB, Controls) >= hist.vol.R

\* two controls reaching 0 dB or above, a request the first cannot hit
\* exactly, and a total louder than the request
C2_Witness ==
  /\ pc = "live" /\ hist.vol.called /\ Len(Controls) = 2
  /\ hist.vol.R < 0
  /\ \A i \in 1..Len(Controls) : Hi(card[Controls[i]].scale) >= 0
  /\ dB[Controls[1]] > hist.vol.R
  /\ Total(dB, Controls) > hist.vol.R

\* C3 as stated: the mute switch of a created handle is the first element of
\* the card that has a playback switch, whatever its name; there is none only
\* when no element has a playback switch.
C3_SwitchIsFirstElementWithSwitch ==
  pc = "live" =>
    LET S == { i \in 1..Len(card) : card[i].hasSw }
    IN  /\ (S = {}) <=> (cmix.playback_switch = NULL)
        /\ S # {} => (cmix.playback_switch \in S
                      /\ \A j \in S : cmix.playback_switch <= j)

\* C3 (amended): the mute switch of a created handle is the first element of
\* the card that has one of the names "Master", "Digital", "PCM" and a
\* playback switch, whether or not it is a volume control; there is none only
\* when no element with such a name has a playback switch.
C3_SwitchIsFirstMainElementWithSwitch ==
  pc = "live" =>
    LET S == { i \in 1..Len(card) : card[i].name \in MainNames /\ card[i].hasSw }
    IN  /\ (S = {}) <=> (cmix.playback_switch = NULL)
        /\ S # {} => (cmix.playback_switch \in S
                      /\ \A j \in S : cmix.playback_switch <= j)

\* two elements of a main name with a switch: the first one is taken, and it
\* has no playback volume
C3_Witness ==
  /\ pc = "live" /\ Len(card) = 2
  /\ \A i \in 1..2 : card[i].name \in MainNames /\ card[i].hasSw
  /\ ~card[1].hasVol /\ card[2].hasVol
  /\ cmix.playback_switch = 1

\* C4: the volume controls of a created handle are exactly the elements of the
\* card with a name of the table and playback volume, each once, in
\* enumeration order.
C4_ControlsAreTheMainVolumeElements ==
  pc = "live" =>
    /\ { Controls[k] : k \in 1..Len(Controls) }
         = { i \in 1..Len(card) : card[i].name \in MainNames /\ card[i].hasVol }
    /\ \A k \in 1..Len(Controls), l \in 1..Len(Controls) :
         k < l => Controls[k] < Controls[l]

\* "PCM" enumerated before "Master": both kept, in that order
C4_Witness ==
  /\ pc = "live" /\ Controls = <<1, 2>>
  /\ card[1].name = "PCM" /\ card[2].name = "Master"

\* create failed in alsa_mixer_open
OpenFailed == pc = "failed" /\ hist.create \in {"open", "attach", "register", "load"}

\* C5: when create fails because alsa_mixer_open fails, at whichever of open,
\* attach, register, load, nothing create acquired stays live: no handle
\* record, no connection, no control record.
C5_FailedOpenLeavesNothingLive ==
  OpenFailed => (cmix = NoHandle /\ heap = NoHeap)

\* C6: when the allocation of a control record fails, create fails with the
\* enumeration cut short and no control record, connection or handle record
\* live.
C6_FailedControlAllocLeavesNothingLive ==
  (pc = "failed" /\ hist.create = "ctl") =>
    /\ cmix = NoHandle
    /\ heap = NoHeap
    /\ hist.built < Cardinality({ i \in 1..Len(card) :
                                   card[i].name \in MainNames /\ card[i].hasVol })

\* the allocation failed with a control record already built
C6_Witness ==
  pc = "failed" /\ hist.create = "ctl" /\ hist.built >= 1

\* C7: on a handle with a mute switch, after any calls of set_mute and
\* set_volume the switch is on exactly when the last set_mute was given 0.
C7_SwitchIsNegationOfLastMute ==
  (pc = "live" /\ cmix.playback_switch # NULL /\ hist.mute # "none") =>
    switch[cmix.playback_switch] = (IF hist.mute = "muted" THEN 0 ELSE 1)

\* muted, then a set_volume on a handle whose switch element is also a volume
\* control: the switch is still off
C7_Witness ==
  /\ pc = "live" /\ cmix.playback_switch # NULL
  /\ hist.mute = "muted" /\ hist.last.op = "set_volume"
  /\ \E k \in 1..Len(Controls) : Controls[k] = cmix.playback_switch
  /\ switch[cmix.playback_switch] = 0

\* C8: on a handle without a mute switch a set_mute call changes no switch,
\* no attenuation, nothing of the handle, and returns with the handle live.
C8_MuteWithoutSwitchIsNoOp ==
  [][ (pc = "live" /\ cmix.playback_switch = NULL /\ hist'.last.op = "set_mute")
      => (switch' = switch /\ dB' = dB /\ cmix' = cmix /\ heap' = heap
          /\ pc' = "live") ]_vars

\* set_mute(true) was called on a handle without a mute switch while the card
\* has a switch that is on, and it still is
C8_Witness ==
  /\ pc = "live" /\ cmix.playback_switch = NULL
  /\ hist.last.op = "set_mute" /\ hist.mute = "muted"
  /\ \E i \in 1..Len(card) : card[i].hasSw /\ switch[i] = 1

\* the last two calls were set_mute(true), set_mute(false), on a handle with a
\* mute switch; hist.was is the switch before the two calls
MutedThenUnmuted ==
  pc = "live" /\ cmix.playback_switch # NULL /\ hist.pair = "mute_unmute"

\* C9 as stated: on a handle with a mute switch, after set_mute(true) followed
\* by set_mute(false) the switch is as it was before the two calls.
C9_MuteUnmuteRestoresSwitch ==
  MutedThenUnmuted => switch[cmix.playback_switch] = hist.was

\* C9 (amended): on a handle with a mute switch, after set_mute(true) followed
\* by set_mute(false) the switch is on; it is as it was before the two calls
\* exactly when it was on before them.
C9_MuteUnmuteLeavesSwitchOn ==
  MutedThenUnmuted =>
    /\ switch[cmix.playback_switch] = 1
    /\ (switch[cmix.playback_switch] = hist.was) <=> (hist.was = 1)

\* the switch was on, was muted and unmuted
C9_Witness ==
  MutedThenUnmuted /\ hist.was = 1

\* C10: when set_volume is called twice in a row with the same request, every
\* element applies after the second call what it applied after the first
\* (hist.was), whatever it applied before the first.
C10_SetVolumeIdempotent ==
  (pc = "live" /\ hist.pair = "vol_again") => dB = hist.was

\* the same negative request twice on two chained controls, the first of which
\* attenuates
C10_Witness ==
  /\ pc = "live" /\ hist.pair = "vol_again"
  /\ Len(Controls) = 2 /\ hist.vol.R < 0
  /\ dB[Controls[1]] < 0

\* C11: as long as the handle is live its list of volume controls and its
\* mute switch are the ones create returned (hist.handle), whatever calls of
\* set_volume and set_mute were made.
C11_HandleIsAsCreated ==
  pc = "live" =>
    /\ cmix.main_volume_controls = hist.handle.main_volume_controls
    /\ cmix.playback_switch = hist.handle.playback_switch
    /\ cmix.mixer = hist.handle.mixer

\* a handle with two volume controls and a mute switch on which set_volume
\* and then set_mute were called
C11_Witness ==
  /\ pc = "live" /\ Len(Controls) = 2 /\ cmix.playback_switch # NULL
  /\ hist.vol.called /\ hist.last.op = "set_mute"

\* C12: after destroy on a created handle, whatever calls were made on it,
\* every control record, the connection and the handle record have been
\* released once: each count of live allocations is exactly 0.
C12_DestroyReleasesEverythingOnce ==
  pc = "destroyed" =>
    /\ heap.ctls = 0 /\ heap.conns = 0 /\ heap.handles = 0
    /\ cmix = NoHandle

\* a handle with two control records was destroyed after a set_volume call
\* (an element applies an attenuation that is neither of its initial ones)
C12_Witness ==
  /\ pc = "destroyed" /\ hist.built = 2
  /\ \E i \in 1..Len(card) :
       card[i].hasVol /\ dB[i] \notin {card[i].scale.lo, Hi(card[i].scale)}

\* the scale of the i-th control written by the last set_volume
LogScale(i) == card[Log[i].elem].scale

C14_ScenarioChainExtendsRange ==
  (pc = "live" /\ hist.vol.called /\ card = ScenarioCard) =>
    /\ hist.vol.R \in (-90)..0 => Total(dB, Controls) = hist.vol.R
    /\ hist.vol.R = -70 => dB = <<-60, -10>>
    /\ hist.vol.R < -90 => (dB = <<-60, -30>> /\ Total(dB, Controls) = -90)
    /\ Len(Log) = 2 /\ Log[1].elem = 1 /\ Log[2].elem = 2

\* the request of -70 on the scenario card
C14_Witness ==
  /\ pc = "live" /\ hist.vol.called /\ card = ScenarioCard
  /\ hist.vol.R = -70 /\ dB = <<-60, -10>>

\* a request below -90 on the scenario card
C14_WitnessBelow ==
  /\ pc = "live" /\ hist.vol.called /\ card = ScenarioCard
  /\ hist.vol.R < -90 /\ dB = <<-60, -30>>

\* the elements the handle's volume controls refer to
ControlElems == { Controls[k] : k \in 1..Len(Controls) }

\* C15: a set_volume call returns with the handle live after one write and
\* one read-back per volume control, in list order (the value read back is
\* the one the control holds after the call), and nothing else: no other
\* element's attenuation and no switch changes, and with no volume control no
\* attenuation changes at all.
C15_OneWriteAndReadPerControl ==
  [][ hist'.last.op = "set_volume" =>
        /\ pc' = "live"
        /\ Len(Log') = Len(Controls)
        /\ \A i \in 1..Len(Log') :
             /\ Log'[i].elem = Controls[i]
             /\ Log'[i].actual_dB = dB'[Controls[i]]
        /\ \A e \in 1..Len(card) : e \notin ControlElems => dB'[e] = dB[e]
        /\ switch' = switch
        /\ Controls = <<>> => dB' = dB ]_vars

\* set_volume was called on a handle with two volume controls and changed
\* both
C15_Witness ==
  /\ pc = "live" /\ hist.last.op = "set_volume" /\ Len(Log) = 2
  /\ \A i \in 1..2 :
       dB[Log[i].elem] \notin {LogScale(i).lo, Hi(LogScale(i))}

\* set_volume was called on a handle without volume controls, on a card with
\* an element that has playback volume
C15_WitnessNone ==
  /\ pc = "live" /\ hist.last.op = "set_volume" /\ Controls = <<>>
  /\ \E e \in 1..Len(card) : card[e].hasVol

\* C16: a set_volume call changes no element's switch and a set_mute call
\* changes no element's attenuation, also when the mute switch is one of the
\* volume controls; so, however the calls interleave, the attenuations are
\* the ones the last set_volume read back and the mute switch is the negation
\* of the last set_mute.
C16_VolumeAndMuteDoNotInterfere ==
  [][ /\ hist'.last.op = "set_volume" => switch' = switch
      /\ hist'.last.op = "set_mute" => dB' = dB
      /\ (pc' = "live" /\ hist'.vol.called) =>
           \A i \in 1..Len(Log') : dB'[Log'[i].elem] = Log'[i].actual_dB
      /\ (pc' = "live" /\ cmix'.playback_switch # NULL /\ hist'.mute # "none") =>
           switch'[cmix'.playback_switch]
             = (IF hist'.mute = "muted" THEN 0 ELSE 1) ]_vars

\* the mute switch is one of the volume controls: after set_volume and then
\* set_mute(true) it is off and still applies the attenuation set_volume left
C16_Witness ==
  /\ pc = "live" /\ cmix.playback_switch \in ControlElems
  /\ hist.vol.called /\ hist.last.op = "set_mute" /\ hist.mute = "muted"
  /\ switch[cmix.playback_switch] = 0
  /\ dB[cmix.playback_switch]
       \notin {card[cmix.playback_switch].scale.lo,
               Hi(card[cmix.playback_switch].scale)}

\* C17: no step changes the attenuation or the switch of an element whose
\* name is not "Master", "Digital" or "PCM", and every volume control of a
\* live handle and its mute switch, when it has one, carry one of these names.
C17_OnlyMainElementsAreWritten ==
  [][ /\ \A e \in 1..Len(card) :
           card[e].name \notin MainNames
             => (dB'[e] = dB[e] /\ switch'[e] = switch[e])
      /\ pc' = "live" =>
           /\ \A k \in 1..Len(cmix'.main_volume_controls) :
                card[cmix'.main_volume_controls[k]].name \in MainNames
           /\ cmix'.playback_switch # NULL
                => card[cmix'.playback_switch].name \in MainNames ]_vars

\* "Headphone" with volume and switch is enumerated before "Master": the
\* handle uses "Master" alone, and after set_volume and set_mute(true)
\* "Headphone" is still on and at its highest step
C17_Witness ==
  /\ pc = "live" /\ Len(card) = 2
  /\ card[1].name = "Headphone" /\ card[1].hasVol /\ card[1].hasSw
  /\ Controls = <<2>> /\ cmix.playback_switch = 2
  /\ hist.vol.called /\ hist.vol.R < 0 /\ hist.mute = "muted"
  /\ switch[1] = 1 /\ dB[1] = Hi(card[1].scale)
  /\ switch[2] = 0 /\ dB[2] < 0

====
